---- MODULE Spec2Model ----
(***************************************************************************)
(* The password-reset / login statics of the Users collection              *)
(* (src/src/models/PrizeCategories/interface.ts, lines 45-261).            *)
(*                                                                         *)
(* The persisted user document is `db`.  Every handler is split at its     *)
(* store writes: the first step of a handler is the findOne together with  *)
(* the synchronous code that follows it, every later step is one awaited   *)
(* store write (user.update or user.save).  A store write may fail, in     *)
(* which case the handler rejects and the write has no effect.             *)
(***************************************************************************)
EXTENDS Integers, Sequences, FiniteSets, TLC

\* ---------------------------------------------------------------- bounds
\* the clock runs from 0 to MaxTime; MaxGuessCount, CodeTTL and TokenTTL stand
\* for utils.RESET_PASSWORD_MAX_GUESS_COUNT,
\* utils.RESET_PASSWORD_CODE_TIME_PERIOD_LENGTH and
\* utils.RESET_PASSWORD_TOKEN_TIME_PERIOD_LENGTH, counted in clock ticks
MaxTime == 3
MaxGuessCount == 2
CodeTTL == 2
TokenTTL == 1

Procs == {1, 2}
Serial == {1}

Codes == {"c1", "c2"}
Rand == {1, 2}
Passwords == {"p1", "p2"}
UserEmail == "user@x"
Emails == {"user@x", " User@X ", "absent@x"}
ResetEmails == {"user@x", "absent@x"}

Undefined == "undefined"
Absent == << >>
Some(x) == <<x>>
Val(o) == o[1]

\* ------------------------------------------------------------- hashing
sha256(s) == <<"sha256", s>>
hashString(s) == <<"sha256", s>>
bcryptHash(p) == <<"bcrypt", p>>
bcryptCompare(p, h) == h = <<"bcrypt", p>>

\* email.toLowerCase().trim()
Normalize(e) == IF e = " User@X " THEN "user@x" ELSE e

\* the token minted by a successful code verification
MakeToken(codeHash, iso, rnd) == hashString(<<codeHash, iso, rnd>>)

NoToken == << >>
\* a token no verification ever mints
BogusToken == MakeToken(sha256("c1"), 0, 0)

VARIABLES db, now, proc, hist
vars == <<db, now, proc, hist>>

\* ------------------------------------------------------ the user document
UserDoc(pw, code, token, count) ==
    [password |-> pw, resetPasswordCode |-> code,
     resetPasswordToken |-> token, resetPasswordCodeGuessCount |-> count]

InitDb == UserDoc(bcryptHash("p1"), Absent, Absent, 0)

\* this.findOne({ email })
findOne(email) == IF email = UserEmail THEN Some(db) ELSE Absent

\* the pre-save hook of the user schema: a modified password is slow-hashed,
\* a modified reset code is fast-hashed
preSave(doc, f) ==
    CASE f = "password" -> bcryptHash(doc.password)
      [] f = "resetPasswordCode" /\ doc.resetPasswordCode # Absent ->
            Some([code |-> sha256(Val(doc.resetPasswordCode).code),
                  requestedAt |-> Val(doc.resetPasswordCode).requestedAt])
      [] OTHER -> doc[f]

\* user.save(): writes the modified paths of the in-memory document
save(stored, doc, mods) ==
    [f \in DOMAIN stored |-> IF f \in mods THEN preSave(doc, f) ELSE stored[f]]

\* user.update({ $unset: { <path>: "" } }): removes one path of the stored
\* document, the in-memory document is not touched
unset(stored, path) == [stored EXCEPT ![path] = Absent]

\* --------------------------------------------------------- process state
\* history kept for the properties: the token the last successful verification
\* returned since the last issued code, the token the last successful commit
\* consumed, and whether the last verification or commit call turned a correct
\* code away as rate limited ("limited") and a new code was issued since
\* ("reissued"); the number of verifications of the pending code that ended in
\* Mismatch; the time the code behind the pending code or token was issued;
\* whether a commit of the pending token has been turned away as a mismatch;
\* the password of the last successful commit (of the registration at first)
NoHist ==
    [lastVerified |-> NoToken, spent |-> NoToken, lockout |-> "no",
     mismatches |-> 0, codeAt |-> 0, rejected |-> FALSE, current |-> "p1"]

IdleProc ==
    [pc |-> "idle", op |-> "none", email |-> UserEmail, code |-> Undefined,
     token |-> NoToken, password |-> Undefined, pre |-> InitDb,
     doc |-> InitDb, mods |-> {}, clk |-> 0, result |-> "none",
     ret |-> NoToken, h0 |-> NoHist, superseded |-> FALSE]

Init ==
    /\ db = InitDb
    /\ now = 0
    /\ proc = [p \in Procs |-> IdleProc]
    /\ hist = NoHist

CanStart(p) == proc[p].pc \in {"idle", "done"}

\* the record of a call that has just been made
Call(opname, email, code, token, password) ==
    [IdleProc EXCEPT !.op = opname, !.email = email, !.code = code,
                     !.token = token, !.password = password,
                     !.pre = db, !.doc = db, !.clk = now, !.h0 = hist]

Throw(c, kind) == [c EXCEPT !.pc = "done", !.result = kind]

\* the record of a finished call is history only: it is dropped before the
\* clock moves on, which loses no behaviour of the stored record and the clock
Return(p) ==
    /\ proc[p].pc = "done"
    /\ proc' = [proc EXCEPT ![p] = IdleProc]
    /\ UNCHANGED <<db, now, hist>>

Tick ==
    /\ now < MaxTime
    /\ \A p \in Procs : proc[p].pc # "done"
    /\ now' = now + 1
    /\ UNCHANGED <<db, proc, hist>>

\* a store write (user.update or user.save) rejects: nothing is written
StoreFail(p) ==
    /\ proc[p].pc \in {"reqSave", "verMismatchSave", "verUpdate", "verSave",
                       "comUpdate", "comSave"}
    /\ proc' = [proc EXCEPT ![p] = Throw(proc[p], "StoreError")]
    /\ UNCHANGED <<db, now, hist>>

\* ------------------------------------ findByEmailAndRequestResetPasswordCode
\* mutant: line 121 (the guess count is set to 0) left out
RequestCodeDoc_KeepCount(user, gen, t) ==
    [user EXCEPT !.resetPasswordCode = Some([code |-> gen, requestedAt |-> t]),
                 !.resetPasswordToken = Absent]

\* mutant: line 120 (the token is cleared) left out
RequestCodeDoc_KeepToken(user, gen, t) ==
    [user EXCEPT !.resetPasswordCode = Some([code |-> gen, requestedAt |-> t]),
                 !.resetPasswordCodeGuessCount = 0]

\* lines 115-121: the in-memory document after the assignments
RequestCodeDoc(user, gen, t) ==
    [user EXCEPT !.resetPasswordCode = Some([code |-> gen, requestedAt |-> t]),
                 !.resetPasswordToken = Absent,
                 !.resetPasswordCodeGuessCount = 0]

RequestCodeMods ==
    {"resetPasswordCode", "resetPasswordToken", "resetPasswordCodeGuessCount"}

\* lines 112-121: findOne and the assignments, up to the awaited save
findByEmailAndRequestResetPasswordCode(p, email, gen) ==
    /\ CanStart(p)
    /\ LET c == Call("requestCode", email, gen, NoToken, Undefined)
           user == findOne(email)
       IN  proc' = [proc EXCEPT ![p] =
             IF user = Absent THEN Throw(c, "NotFound")
             ELSE [c EXCEPT !.pc = "reqSave",
                            !.doc = RequestCodeDoc(Val(user), gen, now),
                            !.mods = RequestCodeMods]]
    /\ UNCHANGED <<db, now, hist>>

\* a verification that has read the record and has a write to make; a code
\* issued now supersedes the code it read
InVerifyWrite(q) == proc[q].pc \in {"verMismatchSave", "verUpdate", "verSave"}

\* line 122: await user.save()
RequestCodeSave(p) ==
    /\ proc[p].pc = "reqSave"
    /\ db' = save(db, proc[p].doc, proc[p].mods)
    /\ proc' = [q \in Procs |->
                  IF q = p THEN [proc[q] EXCEPT !.pc = "done", !.result = "ok"]
                  ELSE IF InVerifyWrite(q) THEN [proc[q] EXCEPT !.superseded = TRUE]
                  ELSE proc[q]]
    /\ hist' = [hist EXCEPT !.lastVerified = NoToken,
                            !.lockout = IF @ = "limited" THEN "reissued" ELSE "no",
                            !.mismatches = 0,
                            !.codeAt = Val(proc[p].doc.resetPasswordCode).requestedAt,
                            !.rejected = FALSE]
    /\ now' = now

\* ----------------------------------- findByEmailAndRequestResetPasswordToken
\* mutant: the lookup (lines 148-152) made before the test of line 145
VerifyCodeOutcome_LookupFirst(code, user, t) ==
    IF user = Absent \/ Val(user).resetPasswordCode = Absent THEN "NotFound"
    ELSE IF code = Undefined THEN "InvalidInput"
    ELSE IF Val(user).resetPasswordCodeGuessCount >= MaxGuessCount THEN "RateLimited"
    ELSE IF t - Val(Val(user).resetPasswordCode).requestedAt > CodeTTL THEN "Expired"
    ELSE IF Val(Val(user).resetPasswordCode).code # sha256(code) THEN "Mismatch"
    ELSE "Match"

\* mutant: the expiry test of line 159 with >= in place of >
VerifyCodeOutcome_EarlyExpiry(code, user, t) ==
    IF code = Undefined THEN "InvalidInput"
    ELSE IF user = Absent \/ Val(user).resetPasswordCode = Absent THEN "NotFound"
    ELSE IF Val(user).resetPasswordCodeGuessCount >= MaxGuessCount THEN "RateLimited"
    ELSE IF t - Val(Val(user).resetPasswordCode).requestedAt >= CodeTTL THEN "Expired"
    ELSE IF Val(Val(user).resetPasswordCode).code # sha256(code) THEN "Mismatch"
    ELSE "Match"

\* mutant: the guess-count test of lines 154-155 left out
VerifyCodeOutcome_NoLimit(code, user, t) ==
    IF code = Undefined THEN "InvalidInput"
    ELSE IF user = Absent \/ Val(user).resetPasswordCode = Absent THEN "NotFound"
    ELSE IF t - Val(Val(user).resetPasswordCode).requestedAt > CodeTTL THEN "Expired"
    ELSE IF Val(Val(user).resetPasswordCode).code # sha256(code) THEN "Mismatch"
    ELSE "Match"

\* mutant: the expiry test (lines 158-162) moved before the guess-count test
VerifyCodeOutcome_ExpiryFirst(code, user, t) ==
    IF code = Undefined THEN "InvalidInput"
    ELSE IF user = Absent \/ Val(user).resetPasswordCode = Absent THEN "NotFound"
    ELSE IF t - Val(Val(user).resetPasswordCode).requestedAt > CodeTTL THEN "Expired"
    ELSE IF Val(user).resetPasswordCodeGuessCount >= MaxGuessCount THEN "RateLimited"
    ELSE IF Val(Val(user).resetPasswordCode).code # sha256(code) THEN "Mismatch"
    ELSE "Match"

\* lines 145-168: the checks in the order of the code; "Match" when all pass
VerifyCodeOutcome(code, user, t) ==
    IF code = Undefined THEN "InvalidInput"
    ELSE IF user = Absent \/ Val(user).resetPasswordCode = Absent THEN "NotFound"
    ELSE IF Val(user).resetPasswordCodeGuessCount >= MaxGuessCount THEN "RateLimited"
    ELSE IF t - Val(Val(user).resetPasswordCode).requestedAt > CodeTTL THEN "Expired"
    ELSE IF Val(Val(user).resetPasswordCode).code # sha256(code) THEN "Mismatch"
    ELSE "Match"

\* mutant: the counter raised by 2
MismatchDoc_Twice(user) ==
    [user EXCEPT !.resetPasswordCodeGuessCount = @ + 2]

\* line 169: user.resetPasswordCodeGuessCount += 1
MismatchDoc(user) ==
    [user EXCEPT !.resetPasswordCodeGuessCount = @ + 1]

\* mutant: the token stamped with the time the code was requested
TokenDoc_CodeStamp(user, t, rnd) ==
    [user EXCEPT !.resetPasswordToken =
        Some([token |-> MakeToken(Val(user.resetPasswordCode).code, t, rnd),
              requestedAt |-> Val(user.resetPasswordCode).requestedAt])]

\* lines 196-205: user.resetPasswordToken = { token, requestedAt }
TokenDoc(user, t, rnd) ==
    [user EXCEPT !.resetPasswordToken =
        Some([token |-> MakeToken(Val(user.resetPasswordCode).code, t, rnd),
              requestedAt |-> t])]

\* lines 145-205: the checks and the in-memory changes, up to the first write
findByEmailAndRequestResetPasswordToken(p, email, code, rnd) ==
    /\ CanStart(p)
    /\ LET c == Call("verifyCode", email, code, NoToken, Undefined)
           user == findOne(email)
           out == VerifyCodeOutcome(code, user, now)
       IN  /\ proc' = [proc EXCEPT ![p] =
             CASE out = "Mismatch" ->
                    [c EXCEPT !.pc = "verMismatchSave",
                              !.doc = MismatchDoc(Val(user)),
                              !.mods = {"resetPasswordCodeGuessCount"}]
               [] out = "Match" ->
                    [c EXCEPT !.pc = "verUpdate",
                              !.doc = TokenDoc(Val(user), now, rnd),
                              !.mods = {"resetPasswordToken"}]
               [] OTHER -> Throw(c, out)]
           /\ hist' = [hist EXCEPT !.lockout =
                          IF out = "RateLimited"
                             /\ Val(Val(user).resetPasswordCode).code = sha256(code)
                          THEN "limited" ELSE "no"]
    /\ UNCHANGED <<db, now>>

\* a mismatch of the pending code is counted in the history
MismatchHist(p) ==
    IF proc[p].superseded THEN hist ELSE [hist EXCEPT !.mismatches = @ + 1]

\* mutant: the counter raised in the store ($inc) instead of set to the value
\* computed from the record read
VerifyCodeMismatchSave_Atomic(p) ==
    /\ proc[p].pc = "verMismatchSave"
    /\ db' = [db EXCEPT !.resetPasswordCodeGuessCount = @ + 1]
    /\ proc' = [proc EXCEPT ![p] = Throw(proc[p], "Mismatch")]
    /\ hist' = MismatchHist(p)
    /\ now' = now

\* mutant: a mismatch also consumes the code
VerifyCodeMismatchSave_ClearsCode(p) ==
    /\ proc[p].pc = "verMismatchSave"
    /\ db' = unset(save(db, proc[p].doc, proc[p].mods), "resetPasswordCode")
    /\ proc' = [proc EXCEPT ![p] = Throw(proc[p], "Mismatch")]
    /\ hist' = MismatchHist(p)
    /\ now' = now

\* lines 170-171: await user.save(); throw "Hashed codes do not match"
VerifyCodeMismatchSave(p) ==
    /\ proc[p].pc = "verMismatchSave"
    /\ db' = save(db, proc[p].doc, proc[p].mods)
    /\ proc' = [proc EXCEPT ![p] = Throw(proc[p], "Mismatch")]
    /\ hist' = MismatchHist(p)
    /\ now' = now

\* lines 207-209: await user.update({ $unset: { resetPasswordCode: "" } })
VerifyCodeUpdate(p) ==
    /\ proc[p].pc = "verUpdate"
    /\ db' = unset(db, "resetPasswordCode")
    /\ proc' = [proc EXCEPT ![p].pc = "verSave"]
    /\ UNCHANGED <<now, hist>>

\* lines 211-213: await user.save(); return user.resetPasswordToken.token
VerifyCodeSave(p) ==
    /\ proc[p].pc = "verSave"
    /\ db' = save(db, proc[p].doc, proc[p].mods)
    /\ proc' = [proc EXCEPT ![p].pc = "done", ![p].result = "ok",
                            ![p].ret = Val(proc[p].doc.resetPasswordToken).token]
    /\ hist' = [hist EXCEPT
                   !.lastVerified = Val(proc[p].doc.resetPasswordToken).token,
                   !.spent = NoToken, !.lockout = "no", !.rejected = FALSE]
    /\ now' = now

\* ----------------------------------------------- findByEmailAndResetPassword
\* mutant: the token comparison of line 250 left out
ResetPasswordOutcome_NoCompare(token, user, t) ==
    IF token = NoToken THEN "InvalidInput"
    ELSE IF user = Absent \/ Val(user).resetPasswordToken = Absent THEN "NotFound"
    ELSE IF t - Val(Val(user).resetPasswordToken).requestedAt > TokenTTL THEN "Expired"
    ELSE "Match"

\* lines 234-250: the checks in the order of the code; "Match" when all pass
ResetPasswordOutcome(token, user, t) ==
    IF token = NoToken THEN "InvalidInput"
    ELSE IF user = Absent \/ Val(user).resetPasswordToken = Absent THEN "NotFound"
    ELSE IF t - Val(Val(user).resetPasswordToken).requestedAt > TokenTTL THEN "Expired"
    ELSE IF token # Val(Val(user).resetPasswordToken).token THEN "Mismatch"
    ELSE "Match"

\* line 252: user.password = password
ResetPasswordDoc(user, password) == [user EXCEPT !.password = password]

\* a commit turned away as a mismatch is noted in the history
CommitCallHist(out) ==
    [hist EXCEPT !.lockout = "no",
                 !.rejected = IF out = "Mismatch" THEN TRUE ELSE @]

\* mutant: a wrong token burns the stored one
findByEmailAndResetPassword_BurnsToken(p, email, token, password) ==
    /\ CanStart(p)
    /\ LET c == Call("resetPassword", email, Undefined, token, password)
           user == findOne(email)
           out == ResetPasswordOutcome(token, user, now)
       IN  /\ proc' = [proc EXCEPT ![p] =
                IF out = "Match"
                THEN [c EXCEPT !.pc = "comUpdate",
                               !.doc = ResetPasswordDoc(Val(user), password),
                               !.mods = {"password"}]
                ELSE Throw(c, out)]
           /\ db' = IF out = "Mismatch" THEN unset(db, "resetPasswordToken") ELSE db
           /\ hist' = CommitCallHist(out)
    /\ now' = now

\* lines 234-252: the checks and the assignment, up to the first write
findByEmailAndResetPassword(p, email, token, password) ==
    /\ CanStart(p)
    /\ LET c == Call("resetPassword", email, Undefined, token, password)
           user == findOne(email)
           out == ResetPasswordOutcome(token, user, now)
       IN  /\ proc' = [proc EXCEPT ![p] =
             IF out = "Match"
             THEN [c EXCEPT !.pc = "comUpdate",
                            !.doc = ResetPasswordDoc(Val(user), password),
                            !.mods = {"password"}]
             ELSE Throw(c, out)]
           /\ hist' = CommitCallHist(out)
    /\ UNCHANGED <<db, now>>

\* mutant: the $unset of lines 254-256 left out
ResetPasswordUpdate_NoUnset(p) ==
    /\ proc[p].pc = "comUpdate"
    /\ proc' = [proc EXCEPT ![p].pc = "comSave"]
    /\ UNCHANGED <<db, now, hist>>

\* mutant: the password is saved together with the $unset of the token
ResetPasswordUpdate_SavesPassword(p) ==
    /\ proc[p].pc = "comUpdate"
    /\ db' = unset(save(db, proc[p].doc, proc[p].mods), "resetPasswordToken")
    /\ proc' = [proc EXCEPT ![p].pc = "comSave"]
    /\ UNCHANGED <<now, hist>>

\* lines 254-256: await user.update({ $unset: { resetPasswordToken: "" } })
ResetPasswordUpdate(p) ==
    /\ proc[p].pc = "comUpdate"
    /\ db' = unset(db, "resetPasswordToken")
    /\ proc' = [proc EXCEPT ![p].pc = "comSave"]
    /\ UNCHANGED <<now, hist>>

\* lines 258-260: await user.save(); return user
ResetPasswordSave(p) ==
    /\ proc[p].pc = "comSave"
    /\ db' = save(db, proc[p].doc, proc[p].mods)
    /\ proc' = [proc EXCEPT ![p].pc = "done", ![p].result = "ok"]
    /\ hist' = [hist EXCEPT !.spent = proc[p].token, !.codeAt = 0,
                            !.rejected = FALSE, !.current = proc[p].password]
    /\ now' = now

\* --------------------------------------------------------------- findByCreds
\* line 87: the message thrown when no user has the email
LoginErrorNoUser == "[[translation:339ca901-d88e-4e10-916a-95c54a4ed932]]"
\* line 91: the message thrown when the password does not match
LoginErrorNoMatch == "[[translation:339ca901-d88e-4e10-916a-95c54a4ed932]]"

\* mutant: an unknown email reported with a message of its own
FindByCredsOutcome_TellsNoUser(user, password) ==
    IF user = Absent THEN "User not found"
    ELSE IF ~bcryptCompare(password, Val(user).password) THEN LoginErrorNoMatch
    ELSE "ok"

\* mutant: the comparison of lines 89-91 left out
FindByCredsOutcome_AnyPassword(user, password) ==
    IF user = Absent THEN LoginErrorNoUser ELSE "ok"

\* lines 85-91
FindByCredsOutcome(user, password) ==
    IF user = Absent THEN LoginErrorNoUser
    ELSE IF ~bcryptCompare(password, Val(user).password) THEN LoginErrorNoMatch
    ELSE "ok"

\* line 93: AuthTokens.generate(user._id)
AuthTokensGenerate(uid) == <<"auth", uid>>

\* lines 85-97: one lookup, the comparison, the session token
findByCreds(p, email, password) ==
    /\ CanStart(p)
    /\ LET c == Call("login", email, Undefined, NoToken, password)
           user == findOne(Normalize(email))
           out == FindByCredsOutcome(user, password)
       IN  proc' = [proc EXCEPT ![p] =
             IF out = "ok"
             THEN [c EXCEPT !.pc = "done", !.result = "ok",
                            !.ret = AuthTokensGenerate(UserEmail)]
             ELSE Throw(c, out)]
    /\ hist' = [hist EXCEPT !.lockout = "no"]
    /\ UNCHANGED <<db, now>>

\* ------------------------------------------------------------ specifications
\* what a client may present as a token: nothing, a wrong value, a token a
\* verification has returned, or the stored one
PresentedTokens ==
    {NoToken, BogusToken, hist.lastVerified, hist.spent}
       \cup (IF db.resetPasswordToken = Absent THEN {}
             ELSE {Val(db.resetPasswordToken).token})

\* inputs that cannot influence a call (the random digits of a verification
\* that mints no token, the new password of a commit that is rejected, the
\* code or token sent along with an unknown email) are fixed to one value
RandFor(e, c) ==
    IF VerifyCodeOutcome(c, findOne(e), now) = "Match" THEN Rand ELSE {1}
PasswordsFor(e, t) ==
    IF ResetPasswordOutcome(t, findOne(e), now) = "Match" THEN Passwords ELSE {"p1"}
CodesFor(e) == IF e = UserEmail THEN Codes \cup {Undefined} ELSE {"c1", Undefined}
TokensFor(e) == IF e = UserEmail THEN PresentedTokens ELSE {BogusToken, NoToken}

Step(p) ==
    \/ \E e \in ResetEmails, g \in Codes :
          /\ e # UserEmail => g = "c1"
          /\ findByEmailAndRequestResetPasswordCode(p, e, g)
    \/ RequestCodeSave(p)
    \/ \E e \in ResetEmails : \E c \in CodesFor(e) : \E r \in RandFor(e, c) :
          findByEmailAndRequestResetPasswordToken(p, e, c, r)
    \/ VerifyCodeMismatchSave(p)
    \/ VerifyCodeUpdate(p)
    \/ VerifyCodeSave(p)
    \/ \E e \in ResetEmails : \E t \in TokensFor(e) : \E w \in PasswordsFor(e, t) :
          findByEmailAndResetPassword(p, e, t, w)
    \/ ResetPasswordUpdate(p)
    \/ ResetPasswordSave(p)
    \/ \E e \in Emails, w \in Passwords :
          /\ Normalize(e) # UserEmail => w = "p1"
          /\ findByCreds(p, e, w)
    \/ StoreFail(p)
    \/ Return(p)

\* operations on the user run one at a time (one caller)
Next == Tick \/ \E p \in Serial : Step(p)
Spec == Init /\ [][Next]_vars

\* two callers whose calls interleave at the store accesses; the callers
\* issue codes and verify codes for the user, within one tick of the clock.
\* Every issued code is the same code and every token draws the same random
\* digits, so a guess of the other code is a mismatch whichever call issued.
StepConc(p) ==
    \/ findByEmailAndRequestResetPasswordCode(p, UserEmail, "c1")
    \/ RequestCodeSave(p)
    \/ \E c \in Codes : findByEmailAndRequestResetPasswordToken(p, UserEmail, c, 1)
    \/ VerifyCodeMismatchSave(p)
    \/ VerifyCodeUpdate(p)
    \/ VerifyCodeSave(p)
    \/ StoreFail(p)
    \/ Return(p)

NextConc == \E p \in Procs : StepConc(p)
SpecConc == Init /\ [][NextConc]_vars

\* ------------------------------------------------------------------ claims
Started(p, opname) == proc[p].pc # "idle" /\ proc[p].op = opname
Done(p, opname) == proc[p].pc = "done" /\ proc[p].op = opname
DoneOk(p, opname) == Done(p, opname) /\ proc[p].result = "ok"

HasCode(d) == d.resetPasswordCode # Absent
HasToken(d) == d.resetPasswordToken # Absent
Locked(d) == HasCode(d) /\ d.resetPasswordCodeGuessCount >= MaxGuessCount

Phase(d) ==
    IF HasCode(d) THEN "CodePending"
    ELSE IF HasToken(d) THEN "TokenPending"
    ELSE "NoPendingReset"

\* a verification call for the user that presented a code while one was pending
VerifiedPending(p) ==
    /\ Done(p, "verifyCode")
    /\ proc[p].email = UserEmail
    /\ proc[p].code # Undefined
    /\ HasCode(proc[p].pre)

CodeMatches(p) == Val(proc[p].pre.resetPasswordCode).code = sha256(proc[p].code)
CodeAge(p) == proc[p].clk - Val(proc[p].pre.resetPasswordCode).requestedAt

\* C1: after a successful requestResetCode the stored record holds the hash of
\* the newly generated code stamped with the time of the call, a guess count
\* of 0 and no token, whatever the reset state was before the call.
C1_IssueResets ==
    \A p \in Serial :
        DoneOk(p, "requestCode") =>
            /\ db.resetPasswordCode =
                   Some([code |-> sha256(proc[p].code), requestedAt |-> proc[p].clk])
            /\ proc[p].clk <= now
            /\ db.resetPasswordCodeGuessCount = 0
            /\ db.resetPasswordToken = Absent
            /\ db.password = proc[p].pre.password

C1_Witness ==
    \E p \in Serial :
        /\ DoneOk(p, "requestCode")
        /\ HasToken(proc[p].pre)
        /\ proc[p].pre.resetPasswordCodeGuessCount > 0

\* C2: a verification of a submitted code against a pending code, whose store
\* writes do not fail, succeeds and returns the stored token exactly when the
\* hash of the code equals the stored hash, the age of the code at the call
\* does not exceed codeTTL and the guess count is below maxGuessCount.
C2_VerifyIff ==
    \A p \in Serial :
        (VerifiedPending(p) /\ proc[p].result # "StoreError") =>
            /\ (proc[p].result = "ok" /\ proc[p].ret # NoToken)
                 <=> (/\ CodeMatches(p)
                      /\ CodeAge(p) <= CodeTTL
                      /\ proc[p].pre.resetPasswordCodeGuessCount < MaxGuessCount)
            /\ proc[p].result = "ok" =>
                 db.resetPasswordToken =
                    Some([token |-> proc[p].ret, requestedAt |-> proc[p].clk])

C2_Witness ==
    \E p \in Serial :
        /\ VerifiedPending(p)
        /\ proc[p].result = "ok"
        /\ CodeAge(p) = CodeTTL
        /\ proc[p].pre.resetPasswordCodeGuessCount = MaxGuessCount - 1

\* C3: while the guess count of the pending code is at maxGuessCount, every
\* verification that presents a code, the correct one included and at any
\* later time, fails with RateLimited, returns no token and writes nothing;
\* no call other than requestResetCode ends the lockout.
C3_Lockout ==
    \A p \in Serial :
        /\ (VerifiedPending(p) /\ Locked(proc[p].pre)) =>
              /\ proc[p].result = "RateLimited"
              /\ proc[p].ret = NoToken
              /\ db = proc[p].pre
        /\ (proc[p].pc # "idle" /\ proc[p].op # "requestCode"
              /\ Locked(proc[p].pre)) => Locked(db)

\* a correct code was turned away as rate limited after its TTL had also
\* passed, a new code was then issued, and the new code was verified
C3_Witness ==
    \E p \in Serial :
        /\ DoneOk(p, "verifyCode")
        /\ proc[p].h0.lockout = "reissued"
        /\ proc[p].ret # NoToken

\* C4: with calls made one at a time, no call other than requestResetCode
\* lowers the guess count, no call raises it by more than 1, and a
\* verification that fails with Mismatch raises it by exactly 1.
C4_GuessCount ==
    \A p \in Serial :
        proc[p].pc # "idle" =>
            /\ proc[p].op # "requestCode" =>
                  db.resetPasswordCodeGuessCount
                     >= proc[p].pre.resetPasswordCodeGuessCount
            /\ db.resetPasswordCodeGuessCount
                  <= proc[p].pre.resetPasswordCodeGuessCount + 1
            /\ (Done(p, "verifyCode") /\ proc[p].result = "Mismatch") =>
                  db.resetPasswordCodeGuessCount
                     = proc[p].pre.resetPasswordCodeGuessCount + 1

C4_Witness ==
    \E p \in Serial :
        /\ Done(p, "verifyCode")
        /\ proc[p].result = "Mismatch"
        /\ db.resetPasswordCodeGuessCount = MaxGuessCount
        /\ proc[p].pre.resetPasswordCodeGuessCount = MaxGuessCount - 1

\* C5 as stated: a verification with the correct code made after codeTTL has
\* passed fails with Expired for every guess count.
C5_ExpiredAnyCount ==
    \A p \in Serial :
        (VerifiedPending(p) /\ CodeMatches(p) /\ CodeAge(p) > CodeTTL) =>
            proc[p].result = "Expired"

\* C5 amended: a verification with the correct code made after codeTTL has
\* passed fails with Expired when the guess count is below maxGuessCount and
\* with RateLimited when it is at or above maxGuessCount.
C5_ExpiredBelowLimit ==
    \A p \in Serial :
        (VerifiedPending(p) /\ CodeMatches(p) /\ CodeAge(p) > CodeTTL) =>
            proc[p].result =
                IF proc[p].pre.resetPasswordCodeGuessCount >= MaxGuessCount
                THEN "RateLimited" ELSE "Expired"

C5_Witness ==
    \E p \in Serial :
        /\ VerifiedPending(p) /\ CodeMatches(p) /\ CodeAge(p) > CodeTTL
        /\ proc[p].pre.resetPasswordCodeGuessCount = MaxGuessCount - 1
        /\ proc[p].result = "Expired"

\* C6: there is no persisted state in which a verification call has cleared
\* pendingResetCode while pendingResetToken is not stored.
C6_ConsumeAtomic ==
    \A p \in Serial :
        (Started(p, "verifyCode") /\ HasCode(proc[p].pre) /\ ~HasCode(db)) =>
            HasToken(db)

\* C7: in every persisted state at most one of pendingResetCode and
\* pendingResetToken is present.
C7_AtMostOne == ~(HasCode(db) /\ HasToken(db))

C7_Witness ==
    \E p \in Serial :
        /\ DoneOk(p, "verifyCode")
        /\ HasToken(db) /\ ~HasCode(db)
        /\ proc[p].pre.resetPasswordCodeGuessCount > 0

\* C8: after a successful commit the token is absent, and until a later
\* verification succeeds every commit that presents the consumed token fails
\* with NotFound and changes nothing.
C8_SingleUse ==
    \A p \in Serial :
        /\ DoneOk(p, "resetPassword") => ~HasToken(db)
        /\ (Started(p, "resetPassword") /\ proc[p].email = UserEmail
              /\ proc[p].h0.spent # NoToken /\ proc[p].token = proc[p].h0.spent) =>
              /\ proc[p].result = "NotFound"
              /\ db = proc[p].pre

C8_Witness ==
    \E p \in Serial :
        /\ Done(p, "resetPassword") /\ proc[p].email = UserEmail
        /\ proc[p].h0.spent # NoToken /\ proc[p].token = proc[p].h0.spent
        /\ proc[p].result = "NotFound"
        /\ proc[p].clk - proc[p].token[2][2] <= TokenTTL

\* C9: a commit succeeds only in the TokenPending state, with the token that
\* the last successful verification returned, that verification having
\* happened after the last issued code.
C9_Order ==
    \A p \in Serial :
        DoneOk(p, "resetPassword") =>
            /\ proc[p].h0.lastVerified # NoToken
            /\ proc[p].token = proc[p].h0.lastVerified
            /\ Phase(proc[p].pre) = "TokenPending"

C9_Witness ==
    \E p \in Serial :
        /\ DoneOk(p, "resetPassword")
        /\ db.password # proc[p].pre.password

\* C10: a call changes the phase only along the edges of the state machine:
\* a successful request leads to CodePending, a successful verification from
\* CodePending to TokenPending, a successful commit from TokenPending to
\* NoPendingReset; a failing call and a login leave the phase as it was.
C10_PhaseEdges ==
    \A p \in Serial :
        proc[p].pc = "done" =>
            CASE proc[p].result # "ok" \/ proc[p].op = "login" ->
                    Phase(db) = Phase(proc[p].pre)
              [] proc[p].op = "requestCode" -> Phase(db) = "CodePending"
              [] proc[p].op = "verifyCode" ->
                    Phase(proc[p].pre) = "CodePending" /\ Phase(db) = "TokenPending"
              [] proc[p].op = "resetPassword" ->
                    Phase(proc[p].pre) = "TokenPending" /\ Phase(db) = "NoPendingReset"
              [] OTHER -> TRUE

\* C11: a login with an email no user has and a login of an existing user with
\* a wrong password fail with the same error, and neither returns a session
\* token or writes to the record.
C11_SameFailure ==
    \A p \in Serial :
        Done(p, "login") =>
            /\ proc[p].result # "ok" =>
                  /\ proc[p].result = LoginErrorNoUser
                  /\ proc[p].result = LoginErrorNoMatch
                  /\ proc[p].ret = NoToken
            /\ proc[p].result = "ok" =>
                  /\ Normalize(proc[p].email) = UserEmail
                  /\ bcryptCompare(proc[p].password, proc[p].pre.password)
            /\ db = proc[p].pre

C11_Witness ==
    \E p \in Serial :
        /\ Done(p, "login")
        /\ proc[p].email = "absent@x"
        /\ proc[p].result = LoginErrorNoMatch
        /\ proc[p].ret = NoToken

\* C12: the stored password changes only through a commit that succeeds;
\* issuing a code, a verification, a login and a failing commit leave it as
\* it was.
C12_PasswordFrame ==
    \A p \in Serial :
        (proc[p].pc # "idle" /\ db.password # proc[p].pre.password) =>
            DoneOk(p, "resetPassword")

C12_Witness ==
    \E p \in Serial :
        /\ Done(p, "resetPassword")
        /\ proc[p].result = "StoreError"
        /\ HasToken(proc[p].pre) /\ ~HasToken(db)
        /\ bcryptHash(proc[p].password) # proc[p].pre.password
        /\ db.password = proc[p].pre.password

\* C14: a verification reports the first failure that applies, in the order
\* InvalidInput (no code), NotFound (no user or no pending code), RateLimited,
\* Expired, Mismatch; a missing code is reported whatever the email is, and a
\* locked-out user whose code has expired gets RateLimited.
C14_FailureOrder ==
    \A p \in Serial :
        (Done(p, "verifyCode") /\ proc[p].result # "StoreError") =>
            proc[p].result =
                IF proc[p].code = Undefined THEN "InvalidInput"
                ELSE IF proc[p].email # UserEmail \/ ~HasCode(proc[p].pre)
                     THEN "NotFound"
                ELSE IF proc[p].pre.resetPasswordCodeGuessCount >= MaxGuessCount
                     THEN "RateLimited"
                ELSE IF CodeAge(p) > CodeTTL THEN "Expired"
                ELSE IF ~CodeMatches(p) THEN "Mismatch"
                ELSE "ok"

\* a wrong code for a locked-out user whose code has expired
C14_Witness ==
    \E p \in Serial :
        /\ VerifiedPending(p)
        /\ Locked(proc[p].pre) /\ CodeAge(p) > CodeTTL /\ ~CodeMatches(p)
        /\ proc[p].result = "RateLimited"

\* C15: a verification that fails with InvalidInput, NotFound, RateLimited or
\* Expired leaves the stored record as it was; one that fails with Mismatch
\* changes the guess count only, raising it by 1.
C15_VerifyFrame ==
    \A p \in Serial :
        Done(p, "verifyCode") =>
            /\ proc[p].result \in {"InvalidInput", "NotFound", "RateLimited", "Expired"}
                  => db = proc[p].pre
            /\ proc[p].result = "Mismatch" =>
                  db = [proc[p].pre EXCEPT !.resetPasswordCodeGuessCount = @ + 1]

C15_Witness ==
    \E p \in Serial :
        /\ VerifiedPending(p)
        /\ proc[p].result = "Mismatch"
        /\ CodeAge(p) = CodeTTL
        /\ HasCode(db)
        /\ db.resetPasswordCodeGuessCount = 1

\* a commit for the user that presented the stored token
CommittedStored(p) ==
    /\ Done(p, "resetPassword")
    /\ proc[p].email = UserEmail
    /\ HasToken(proc[p].pre)
    /\ proc[p].token = Val(proc[p].pre.resetPasswordToken).token

TokenAge(p) == proc[p].clk - Val(proc[p].pre.resetPasswordToken).requestedAt

\* C16: a commit that fails with InvalidInput, NotFound, Expired or Mismatch
\* leaves the stored record as it was, and in every reachable state, whatever
\* wrong tokens were presented before, a commit with the stored token within
\* tokenTTL is not turned away by the token checks.
C16_CommitFrame ==
    \A p \in Serial :
        /\ (Done(p, "resetPassword")
              /\ proc[p].result \in {"InvalidInput", "NotFound", "Expired", "Mismatch"})
              => db = proc[p].pre
        /\ (CommittedStored(p) /\ TokenAge(p) <= TokenTTL)
              => proc[p].result \in {"ok", "StoreError"}

\* a commit of the stored token that succeeds after a wrong token was
\* turned away
C16_Witness ==
    \E p \in Serial :
        /\ CommittedStored(p)
        /\ proc[p].result = "ok"
        /\ proc[p].h0.rejected

\* C17: the age of a token runs from the verification that issued it: the
\* stored token carries the time of that verification, a commit with the
\* stored token fails with Expired exactly when that age exceeds tokenTTL, and
\* within tokenTTL it is not turned away, also when the code's own TTL has
\* passed.
C17_TokenAge ==
    \A p \in Serial :
        /\ DoneOk(p, "verifyCode") =>
              Val(db.resetPasswordToken).requestedAt = proc[p].clk
        /\ CommittedStored(p) =>
              /\ proc[p].result = "Expired" <=> TokenAge(p) > TokenTTL
              /\ TokenAge(p) <= TokenTTL => proc[p].result \in {"ok", "StoreError"}

\* a commit that succeeds when the code behind the token is older than codeTTL
C17_Witness ==
    \E p \in Serial :
        /\ CommittedStored(p)
        /\ proc[p].result = "ok"
        /\ TokenAge(p) = TokenTTL
        /\ proc[p].clk - proc[p].h0.codeAt > CodeTTL

\* C18: a login of the user succeeds exactly with the password of the last
\* successful commit, or with the registered one while no commit has
\* succeeded: the new password logs in after the commit, the previous one no
\* longer does, and a failed commit changes nothing.
C18_LoginAfterCommit ==
    \A p \in Serial :
        (Done(p, "login") /\ Normalize(proc[p].email) = UserEmail) =>
            /\ proc[p].result = "ok" <=> proc[p].password = proc[p].h0.current
            /\ proc[p].result # "ok" => proc[p].result = LoginErrorNoMatch

C18_Witness ==
    \E p \in Serial :
        /\ DoneOk(p, "login")
        /\ proc[p].password = "p2"
        /\ proc[p].h0.spent # NoToken

\* C19: there is no persisted state in which a commit has cleared
\* pendingResetToken while the password is not the new one.
C19_CommitAtomic ==
    \A p \in Serial :
        (Started(p, "resetPassword") /\ HasToken(proc[p].pre) /\ ~HasToken(db)) =>
            db.password = bcryptHash(proc[p].password)

\* C13: two verifications with wrong codes that read the same record and both
\* fail with Mismatch leave the stored guess count raised by 1 only, the
\* second save overwriting the first.
C13_LostUpdate ==
    \A p, q \in Procs :
        (/\ p # q
         /\ Done(p, "verifyCode") /\ proc[p].result = "Mismatch"
         /\ Done(q, "verifyCode") /\ proc[q].result = "Mismatch"
         /\ proc[p].pre = proc[q].pre) =>
            db.resetPasswordCodeGuessCount
               = proc[p].pre.resetPasswordCodeGuessCount + 1

\* both calls have failed with Mismatch, the count rose by 1, and more than
\* maxGuessCount mismatches have been evaluated against the pending code
C13_Witness ==
    \E p, q \in Procs :
        /\ p # q
        /\ Done(p, "verifyCode") /\ proc[p].result = "Mismatch"
        /\ Done(q, "verifyCode") /\ proc[q].result = "Mismatch"
        /\ proc[p].pre = proc[q].pre
        /\ db.resetPasswordCodeGuessCount
              = proc[p].pre.resetPasswordCodeGuessCount + 1
        /\ hist.mismatches > MaxGuessCount
        /\ HasCode(db)

\* C20: when a verification that read the record before a code was issued
\* saves its Mismatch after that code was issued, and no verification of the
\* new code has failed, the new code has a guess count of 0.
C20_StaleGuess ==
    \A p \in Procs :
        (/\ Done(p, "verifyCode") /\ proc[p].result = "Mismatch"
         /\ proc[p].superseded
         /\ HasCode(db)
         /\ hist.mismatches = 0) =>
            db.resetPasswordCodeGuessCount = 0

====
